---------------------------- MODULE Spec2Model ----------------------------
(***************************************************************************)
(* Model of the Brent oil change-point pipeline                            *)
(*   src/scripts/brent_oil_change_point_model.py  (the analysis script)    *)
(*   src/backend/app.py                           (the serving backend)    *)
(*                                                                         *)
(* Calendar dates are day numbers.  A date string is a record that keeps   *)
(* the format it is written in, so that parsing with a format and          *)
(* formatting with strftime are conversions, not the identity.             *)
(* numpy / pandas positions are 0-based; TLA+ sequences are 1-based, and   *)
(* At(s, i) reads the 0-based position i.                                  *)
(***************************************************************************)
EXTENDS Integers, Sequences, FiniteSets, TLC

VARIABLES
    pc,                  \* position of the script / the backend
    csv_file,            \* BrentOilPrices.csv: [columns, rows]
    events_data,         \* the curated event list compiled into the script
    n_samples,           \* retained posterior draws, pooled over the chains
    df,                  \* the price data frame (rows of [Date, Price])
    prices,              \* df['Price'].values
    dates,               \* df['Date'].values
    log_returns,         \* np.diff(np.log(prices))
    events,              \* the events data frame (Event_Date parsed)
    trace,               \* trace.posterior["tau_sorted"], one entry per draw
    tau_modes,           \* modal break index per break position
    change_point_dates,  \* dates[tau + 1] per break position
    change_point_events, \* the association records
    change_points_csv,   \* change_points.csv as written
    response,            \* body returned by GET /api/change_points
    error                \* the exception that ended the run, or "none"

vars == <<pc, csv_file, events_data, n_samples, df, prices, dates, log_returns,
          events, trace, tau_modes, change_point_dates, change_point_events,
          change_points_csv, response, error>>

---------------------------------------------------------------------------
(* Bounds of the model *)

MaxRows == 3
SeriesLen == 4
MaxDraws == 3
MaxEvents == 2

(* Program constants *)

n_change_points == 3
window == 7

---------------------------------------------------------------------------
(* Helpers: 0-based reads, ranges *)

At(s, i) == s[i + 1]

Range(s) == {s[i] : i \in 1..Len(s)}

Positions == 0..(n_change_points - 1)

---------------------------------------------------------------------------
(* Date strings and their conversions *)

PRICE_DATE_FORMAT == "%d-%b-%y"
ISO_FORMAT == "%Y-%m-%d"

\* A cell of a table: a date string, a plain text or the missing value NaN
DateString(f, d) == [fmt |-> f, day |-> d, text |-> ""]

Text(s) == [fmt |-> "text", day |-> 0, text |-> s]

NaN == [fmt |-> "nan", day |-> 0, text |-> ""]

\* pd.to_datetime(col, format=f): every cell must be written in format f
CanParse(cell, f) == cell.fmt = f

ToDatetime(cell) == cell.day

\* Timestamp.strftime('%Y-%m-%d')
Strftime(d) == DateString(ISO_FORMAT, d)

---------------------------------------------------------------------------
(* Preprocessing: lines 47-52 *)

IsAscending(rows) ==
    \A i \in 1..(Len(rows) - 1) : rows[i].Date <= rows[i + 1].Date

\* variant: the rows are left in file order
SortValuesUnsorted(rows) == {rows}

\* df.sort_values('Date'): kind defaults to 'quicksort', which orders the rows
\* by Date and leaves the order of rows with equal dates unspecified.  The
\* result is any date-ordered arrangement of the rows.
SortValues(rows) ==
    LET arrangements == {[i \in 1..Len(rows) |-> rows[p[i]]] :
                            p \in Permutations(1..Len(rows))}
    IN  {s \in arrangements : IsAscending(s)}

---------------------------------------------------------------------------
(* Log returns: line 70 *)

\* np.log: finite for a positive price, -inf at 0, nan below 0
Log(p) ==
    IF p > 0 THEN [kind |-> "finite", of |-> p]
    ELSE IF p = 0 THEN [kind |-> "-inf", of |-> 0]
    ELSE [kind |-> "nan", of |-> 0]

\* b - a in IEEE arithmetic on the values np.log produces
Minus(b, a) ==
    IF b.kind = "nan" \/ a.kind = "nan" THEN [kind |-> "nan", num |-> 0, den |-> 0]
    ELSE IF b.kind = "-inf" /\ a.kind = "-inf" THEN [kind |-> "nan", num |-> 0, den |-> 0]
    ELSE IF b.kind = "-inf" THEN [kind |-> "-inf", num |-> 0, den |-> 0]
    ELSE IF a.kind = "-inf" THEN [kind |-> "+inf", num |-> 0, den |-> 0]
    ELSE [kind |-> "finite", num |-> b.of, den |-> a.of]

\* np.diff(np.log(prices)): ln(prices[i+1]) - ln(prices[i]), one shorter
LogReturns(ps) ==
    [i \in 1..(Len(ps) - 1) |-> Minus(Log(ps[i + 1]), Log(ps[i]))]

AllFinite(rs) == \A i \in 1..Len(rs) : rs[i].kind = "finite"

---------------------------------------------------------------------------
(* The change-point model: lines 114-125 *)

\* variant: the prior reaches one index past the last log return
TauUpperLen(rs) == Len(rs)

\* upper bound of the DiscreteUniform prior of tau
TauUpper(rs) == Len(rs) - 1

\* variant: the break indices are used as drawn
SortTauNone(tau) == tau

\* variant: the break indices are sorted in descending order
SortTauDescending(tau) ==
    LET lo == IF tau[1] <= tau[2] THEN tau[1] ELSE tau[2]
        hi == IF tau[1] <= tau[2] THEN tau[2] ELSE tau[1]
    IN  IF tau[3] <= lo THEN <<hi, lo, tau[3]>>
        ELSE IF tau[3] <= hi THEN <<hi, tau[3], lo>>
        ELSE <<tau[3], hi, lo>>

\* pm.math.sort(tau) on the three break indices
SortTau(tau) ==
    LET lo == IF tau[1] <= tau[2] THEN tau[1] ELSE tau[2]
        hi == IF tau[1] <= tau[2] THEN tau[2] ELSE tau[1]
    IN  IF tau[3] <= lo THEN <<tau[3], lo, hi>>
        ELSE IF tau[3] <= hi THEN <<lo, tau[3], hi>>
        ELSE <<lo, hi, tau[3]>>

\* The nested pm.math.switch: the position in mu of the mean given to idx
Switch(idx, tau_sorted) ==
    IF idx < At(tau_sorted, 0) THEN 0
    ELSE IF idx < At(tau_sorted, 1) THEN 1
    ELSE IF idx < At(tau_sorted, 2) THEN 2
    ELSE 3

\* idx = time_idx[:-1]
Idx(ps) == 0..(Len(ps) - 2)

\* mu_t as the segment number of every idx
MuT(ps, tau_sorted) == [t \in Idx(ps) |-> Switch(t, tau_sorted)]

---------------------------------------------------------------------------
(* Posterior summary: lines 140-142 *)

\* trace.posterior["tau_sorted"].values[:, :, i].flatten()
Column(tr, i) == [d \in 1..Len(tr) |-> At(tr[d], i)]

MaxOf(S) == CHOOSE m \in S : \A x \in S : x <= m

\* np.bincount(xs): counts of 0..max(xs), as a 1-based sequence
BinCount(xs) ==
    [v1 \in 1..(MaxOf(Range(xs)) + 1) |->
        Cardinality({d \in 1..Len(xs) : xs[d] = v1 - 1})]

\* ndarray.argmax(): the first 0-based position holding the maximum
ArgMax(arr) ==
    (CHOOSE k \in 1..Len(arr) :
        /\ \A j \in 1..Len(arr) : arr[j] <= arr[k]
        /\ \A j \in 1..(k - 1) : arr[j] < arr[k]) - 1

\* variant: the largest drawn index instead of the most frequent one
ModeAsLargest(tr, i) == MaxOf(Range(Column(tr, i)))

Mode(tr, i) == ArgMax(BinCount(Column(tr, i)))

\* the position of dates read for a modal index
DateIndex(tau) == tau + 1

---------------------------------------------------------------------------
(* Event association: lines 155-172 *)

NOT_AVAILABLE == "N/A"
\* 'No event within (plus-minus)7 days' in the source
PLACEHOLDER == "No event within +/-7 days"

\* variant: the window excludes its two end days
RelevantEventsStrict(cp_date, ev) ==
    SelectSeq(ev, LAMBDA e : /\ e.Event_Date > cp_date - window
                             /\ e.Event_Date < cp_date + window)

\* events[(events['Event_Date'] >= cp_date - window) &
\*        (events['Event_Date'] <= cp_date + window)]
RelevantEvents(cp_date, ev) ==
    SelectSeq(ev, LAMBDA e : /\ e.Event_Date >= cp_date - window
                             /\ e.Event_Date <= cp_date + window)

\* variant: relevant_events.iloc[-1]
ClosestEventLast(relevant_events) == relevant_events[Len(relevant_events)]

\* relevant_events.iloc[0]
ClosestEvent(relevant_events) == relevant_events[1]

\* variant: without an event the record repeats the change-point date
AssociationRecordDatedSentinel(cp_date, ev) ==
    LET relevant_events == RelevantEvents(cp_date, ev)
    IN  IF relevant_events # <<>>
        THEN [Change_Point_Date |-> Strftime(cp_date),
              Event_Date |-> Strftime(ClosestEvent(relevant_events).Event_Date),
              Event_Description |-> ClosestEvent(relevant_events).Event_Description]
        ELSE [Change_Point_Date |-> Strftime(cp_date),
              Event_Date |-> Strftime(cp_date),
              Event_Description |-> Text(PLACEHOLDER)]

\* one pass of the loop body: the record appended for cp_date
AssociationRecord(cp_date, ev) ==
    LET relevant_events == RelevantEvents(cp_date, ev)
    IN  IF relevant_events # <<>>
        THEN LET closest_event == ClosestEvent(relevant_events)
             IN  [Change_Point_Date |-> Strftime(cp_date),
                  Event_Date |-> Strftime(closest_event.Event_Date),
                  Event_Description |-> closest_event.Event_Description]
        ELSE [Change_Point_Date |-> Strftime(cp_date),
              Event_Date |-> Text(NOT_AVAILABLE),
              Event_Description |-> Text(PLACEHOLDER)]

\* the loop over change_point_dates, appending one record per date
AssociateAll(cp_dates, ev) ==
    [j \in 1..Len(cp_dates) |-> AssociationRecord(cp_dates[j], ev)]

---------------------------------------------------------------------------
(* change_points.csv and the backend: script lines 175-176, app.py 9-14 *)

\* the cell texts pd.read_csv reads as missing (its default na_values)
NA_VALUES == {"", "#N/A", "#N/A N/A", "#NA", "-1.#IND", "-1.#QNAN", "-NaN",
              "-nan", "1.#IND", "1.#QNAN", "<NA>", "N/A", "NA", "NULL", "NaN",
              "None", "n/a", "nan", "null"}

\* DataFrame.to_csv(index=False): one line per record, in order
ToCsv(records) == records

ReadCell(cell) ==
    IF cell.fmt = "text" /\ cell.text \in NA_VALUES THEN NaN ELSE cell

\* pd.read_csv(csv_path)
ReadCsv(lines) ==
    [j \in 1..Len(lines) |->
        [c \in DOMAIN lines[j] |-> ReadCell(lines[j][c])]]

\* variant: missing values are left as read
FillCellKeep(cell, value) == cell

FillCell(cell, value) == IF cell = NaN THEN Text(value) ELSE cell

\* df.fillna('N/A', inplace=True)
FillNa(frame, value) ==
    [j \in 1..Len(frame) |->
        [c \in DOMAIN frame[j] |-> FillCell(frame[j][c], value)]]

\* df.to_dict(orient='records')
ToDictRecords(frame) == frame

---------------------------------------------------------------------------
(* Inputs *)

PriceDate(d) == DateString(PRICE_DATE_FORMAT, d)

Row(d, p) == [Date |-> PriceDate(d), Price |-> p]

FileOf(rows) == [columns |-> {"Date", "Price"}, rows |-> rows]

\* day numbers and prices of the rows of an arbitrary price file
FileDays == {1, 2}
FilePrices == {0, 1, 2}

FileCells ==
    {Row(d, p) : d \in FileDays, p \in FilePrices}
        \cup {[Date |-> DateString("%Y/%m/%d", 1), Price |-> p] : p \in FilePrices}

\* price files of up to MaxRows rows, well-formed or not
AnyFiles ==
    {FileOf(rows) : rows \in UNION {[1..n -> FileCells] : n \in 2..MaxRows}}

\* files that lack a column, hold an unparseable date or a non-positive price
MalformedFiles ==
    { [columns |-> {"Price"}, rows |-> <<[Price |-> 1], [Price |-> 2]>>],
      [columns |-> {"Date"}, rows |-> <<[Date |-> PriceDate(1)], [Date |-> PriceDate(2)]>>],
      FileOf(<<Row(1, 1), [Date |-> DateString("%Y/%m/%d", 2), Price |-> 2]>>),
      FileOf(<<Row(31, 1), Row(32, 0), Row(33, 2)>>),
      FileOf(<<Row(31, 2), Row(32, -1)>>) }

\* a clean daily series of n rows starting on day first
CleanFile(first, n) ==
    FileOf([i \in 1..n |-> Row(first + i - 1, 1 + (i % 2))])

CleanFiles == {CleanFile(1, n) : n \in 2..SeriesLen}

GULF_WAR == Text("Gulf War Begins")
IRAQ_WAR == Text("Iraq War Begins")

Event(d, desc) == [Event_Date |-> DateString(ISO_FORMAT, d), Event_Description |-> desc]

\* a date-ordered stand-in for the compiled list of lines 92-104
BuiltinEvents == <<Event(3, GULF_WAR), Event(60, IRAQ_WAR)>>

\* the series the event tables are tried against: change points on day 11 or 12
EventSeries == CleanFile(10, 3)

\* event days 8 and 7 days before, on, and 7 and 8 days after those days
EventDays == {3, 4, 5, 11, 18, 19, 20}

AnyEvents ==
    UNION {[1..n -> {Event(d, desc) : d \in EventDays, desc \in {GULF_WAR, IRAQ_WAR}}] :
            n \in 0..MaxEvents}

---------------------------------------------------------------------------
(* The state after construction, for given sets of inputs *)

InitWith(files, tables, draws) ==
    /\ pc = "start"
    /\ csv_file \in files
    /\ events_data \in tables
    /\ n_samples \in draws
    /\ df = <<>>
    /\ prices = <<>>
    /\ dates = <<>>
    /\ log_returns = <<>>
    /\ events = <<>>
    /\ trace = <<>>
    /\ tau_modes = <<>>
    /\ change_point_dates = <<>>
    /\ change_point_events = <<>>
    /\ change_points_csv = <<>>
    /\ response = <<>>
    /\ error = "none"

Init == InitWith(AnyFiles \cup MalformedFiles, {BuiltinEvents}, {1})

InitPosterior == InitWith(CleanFiles \cup MalformedFiles, {BuiltinEvents}, 1..MaxDraws)

InitEvents == InitWith({EventSeries} \cup MalformedFiles, AnyEvents, {1})

---------------------------------------------------------------------------
(* The script, step by step *)

Raise(e) ==
    /\ pc' = "failed"
    /\ error' = e

\* line 47: df = pd.read_csv('BrentOilPrices.csv')
LoadCsv ==
    /\ pc = "start"
    /\ df' = csv_file.rows
    /\ pc' = "read"
    /\ UNCHANGED <<csv_file, events_data, n_samples, prices, dates, log_returns,
                   events, trace, tau_modes, change_point_dates,
                   change_point_events, change_points_csv, response, error>>

DatesParse ==
    /\ "Date" \in csv_file.columns
    /\ \A i \in 1..Len(df) : CanParse(df[i].Date, PRICE_DATE_FORMAT)

\* line 48: df['Date'] = pd.to_datetime(df['Date'], format='%d-%b-%y')
ParseDates ==
    /\ pc = "read"
    /\ DatesParse
    /\ df' = [i \in 1..Len(df) |-> [df[i] EXCEPT !.Date = ToDatetime(df[i].Date)]]
    /\ pc' = "parsed"
    /\ UNCHANGED <<csv_file, events_data, n_samples, prices, dates, log_returns,
                   events, trace, tau_modes, change_point_dates,
                   change_point_events, change_points_csv, response, error>>

\* line 48 raising: KeyError without the column, ValueError on a bad date
ParseDatesRaise ==
    /\ pc = "read"
    /\ ~DatesParse
    /\ Raise(IF "Date" \in csv_file.columns THEN "ValueError" ELSE "KeyError")
    /\ UNCHANGED <<csv_file, events_data, n_samples, df, prices, dates,
                   log_returns, events, trace, tau_modes, change_point_dates,
                   change_point_events, change_points_csv, response>>

\* line 49: df = df.sort_values('Date')
SortByDate ==
    /\ pc = "parsed"
    /\ df' \in SortValues(df)
    /\ pc' = "sorted"
    /\ UNCHANGED <<csv_file, events_data, n_samples, prices, dates, log_returns,
                   events, trace, tau_modes, change_point_dates,
                   change_point_events, change_points_csv, response, error>>

\* lines 50-52: prices = df['Price'].values; dates = df['Date'].values
TakeColumns ==
    /\ pc = "sorted"
    /\ "Price" \in csv_file.columns
    /\ prices' = [i \in 1..Len(df) |-> df[i].Price]
    /\ dates' = [i \in 1..Len(df) |-> df[i].Date]
    /\ pc' = "columns"
    /\ UNCHANGED <<csv_file, events_data, n_samples, df, log_returns, events,
                   trace, tau_modes, change_point_dates, change_point_events,
                   change_points_csv, response, error>>

\* line 50 raising KeyError: no Price column
TakeColumnsRaise ==
    /\ pc = "sorted"
    /\ "Price" \notin csv_file.columns
    /\ Raise("KeyError")
    /\ UNCHANGED <<csv_file, events_data, n_samples, df, prices, dates,
                   log_returns, events, trace, tau_modes, change_point_dates,
                   change_point_events, change_points_csv, response>>

\* line 70: log_returns = np.diff(np.log(prices))
ComputeLogReturns ==
    /\ pc = "columns"
    /\ log_returns' = LogReturns(prices)
    /\ pc' = "returns"
    /\ UNCHANGED <<csv_file, events_data, n_samples, df, prices, dates, events,
                   trace, tau_modes, change_point_dates, change_point_events,
                   change_points_csv, response, error>>

\* lines 92-107: events = pd.DataFrame(events_data), Event_Date parsed
CompileEvents ==
    /\ pc = "returns"
    /\ events' = [k \in 1..Len(events_data) |->
                    [events_data[k] EXCEPT !.Event_Date = ToDatetime(events_data[k].Event_Date)]]
    /\ pc' = "model"
    /\ UNCHANGED <<csv_file, events_data, n_samples, df, prices, dates,
                   log_returns, trace, tau_modes, change_point_dates,
                   change_point_events, change_points_csv, response, error>>

\* lines 116-117, 131: one retained draw of tau from its support, kept in the
\* trace as tau_sorted
Sample ==
    /\ pc = "model"
    /\ Len(trace) < n_samples
    /\ \E tau \in [1..n_change_points -> 0..TauUpper(log_returns)] :
           trace' = Append(trace, SortTau(tau))
    /\ UNCHANGED <<pc, csv_file, events_data, n_samples, df, prices, dates,
                   log_returns, events, tau_modes, change_point_dates,
                   change_point_events, change_points_csv, response, error>>

\* line 131 raising: the sampler may reject observations that are not finite
SampleRaise ==
    /\ pc = "model"
    /\ trace = <<>>
    /\ ~AllFinite(log_returns)
    /\ Raise("SamplingError")
    /\ UNCHANGED <<csv_file, events_data, n_samples, df, prices, dates,
                   log_returns, events, trace, tau_modes, change_point_dates,
                   change_point_events, change_points_csv, response>>

\* lines 140-142: tau_modes and change_point_dates; reading dates past its
\* end raises IndexError
ExtractChangePoints ==
    /\ pc = "model"
    /\ Len(trace) = n_samples
    /\ LET modes == [i1 \in 1..n_change_points |-> Mode(trace, i1 - 1)]
       IN  IF \A i1 \in 1..n_change_points : DateIndex(modes[i1]) \in 0..(Len(dates) - 1)
           THEN /\ tau_modes' = modes
                /\ change_point_dates' =
                       [i1 \in 1..n_change_points |-> At(dates, DateIndex(modes[i1]))]
                /\ pc' = "extracted"
                /\ error' = error
           ELSE /\ tau_modes' = modes
                /\ change_point_dates' = change_point_dates
                /\ Raise("IndexError")
    /\ UNCHANGED <<csv_file, events_data, n_samples, df, prices, dates,
                   log_returns, events, trace, change_point_events,
                   change_points_csv, response>>

\* lines 155-172: the association loop
Associate ==
    /\ pc = "extracted"
    /\ change_point_events' = AssociateAll(change_point_dates, events)
    /\ pc' = "associated"
    /\ UNCHANGED <<csv_file, events_data, n_samples, df, prices, dates,
                   log_returns, events, trace, tau_modes, change_point_dates,
                   change_points_csv, response, error>>

\* lines 175-176: change_points_df.to_csv('change_points.csv', index=False)
SaveChangePoints ==
    /\ pc = "associated"
    /\ change_points_csv' = ToCsv(change_point_events)
    /\ pc' = "saved"
    /\ UNCHANGED <<csv_file, events_data, n_samples, df, prices, dates,
                   log_returns, events, trace, tau_modes, change_point_dates,
                   change_point_events, response, error>>

\* app.py 9-14: GET /api/change_points
get_change_points ==
    /\ pc = "saved"
    /\ response' = ToDictRecords(FillNa(ReadCsv(change_points_csv), NOT_AVAILABLE))
    /\ pc' = "served"
    /\ UNCHANGED <<csv_file, events_data, n_samples, df, prices, dates,
                   log_returns, events, trace, tau_modes, change_point_dates,
                   change_point_events, change_points_csv, error>>

Next ==
    \/ LoadCsv
    \/ ParseDates
    \/ ParseDatesRaise
    \/ SortByDate
    \/ TakeColumns
    \/ TakeColumnsRaise
    \/ ComputeLogReturns
    \/ CompileEvents
    \/ Sample
    \/ SampleRaise
    \/ ExtractChangePoints
    \/ Associate
    \/ SaveChangePoints
    \/ get_change_points

\* arbitrary price files, the compiled events, one draw
Spec == Init /\ [][Next]_vars

\* clean series, several pooled draws
SpecPosterior == InitPosterior /\ [][Next]_vars

\* arbitrary event tables against one clean series
SpecEvents == InitEvents /\ [][Next]_vars

---------------------------------------------------------------------------
(* Vocabulary of the properties *)

AfterSort == {"sorted", "columns", "returns", "model", "extracted",
              "associated", "saved", "served"}

AfterColumns == AfterSort \ {"sorted"}

AfterReturns == AfterColumns \ {"columns"}

AfterExtract == {"extracted", "associated", "saved", "served"}

AfterAssociate == {"associated", "saved", "served"}

\* absolute distance in days between two dates
Distance(c, e) == IF c >= e THEN c - e ELSE e - c

IsSentinel(rec) ==
    /\ rec.Event_Date = Text(NOT_AVAILABLE)
    /\ rec.Event_Description = Text(PLACEHOLDER)

\* rows of the events table inside the inclusive window of change point c
RowsInWindow(c) ==
    {k \in 1..Len(events) :
        events[k].Event_Date >= c - 7 /\ events[k].Event_Date <= c + 7}

MinOf(S) == CHOOSE m \in S : \A x \in S : m <= x

\* the rows of the price file with their dates parsed, in file order
ParsedRows ==
    [i \in 1..Len(csv_file.rows) |->
        [csv_file.rows[i] EXCEPT !.Date = ToDatetime(csv_file.rows[i].Date)]]

\* rows ordered by date, rows of equal date in their order in rows
StableSorted(rows) ==
    LET before(i, j) == \/ rows[i].Date < rows[j].Date
                        \/ rows[i].Date = rows[j].Date /\ i < j
        rank(i) == Cardinality({j \in 1..Len(rows) : before(j, i)}) + 1
    IN  [r \in 1..Len(rows) |-> rows[CHOOSE i \in 1..Len(rows) : rank(i) = r]]

Occurrences(s, x) == Cardinality({i \in 1..Len(s) : s[i] = x})

SameRows(a, b) ==
    /\ Len(a) = Len(b)
    /\ \A x \in Range(a) \cup Range(b) : Occurrences(a, x) = Occurrences(b, x)

\* number of pooled draws whose break index at position i is v
DrawCount(i, v) == Cardinality({d \in 1..Len(trace) : At(trace[d], i) = v})

NonDecreasing(s) == \A i \in 1..(Len(s) - 1) : s[i] <= s[i + 1]

Malformed(file) ==
    \/ "Date" \notin file.columns
    \/ "Price" \notin file.columns
    \/ \E i \in 1..Len(file.rows) :
          \/ ~CanParse(file.rows[i].Date, PRICE_DATE_FORMAT)
          \/ file.rows[i].Price <= 0

---------------------------------------------------------------------------
(* C1: once the association has run, an event is inside the window of a     *)
(* change point exactly when it is at most 7 days away from it: an event    *)
(* exactly 7 days before or after is included (the record names an event),  *)
(* and when every event is 8 or more days away the record is the sentinel.  *)
WindowIsInclusive ==
    pc \in AfterAssociate =>
        \A j \in 1..Len(change_point_dates) :
            LET c == change_point_dates[j]
                inside == Range(RelevantEvents(c, events))
            IN  /\ \A k \in 1..Len(events) :
                       (events[k] \in inside) <=> (Distance(c, events[k].Event_Date) <= 7)
                /\ (\E k \in 1..Len(events) : Distance(c, events[k].Event_Date) = 7)
                       => ~IsSentinel(change_point_events[j])
                /\ (\A k \in 1..Len(events) : Distance(c, events[k].Event_Date) >= 8)
                       => IsSentinel(change_point_events[j])

\* a change point whose only events in reach are exactly 7 days away, next to
\* a change point whose nearest events are exactly 8 days away
WindowBoundaryReached ==
    /\ pc = "associated"
    /\ \E j \in 1..Len(change_point_dates) :
          /\ \E k \in 1..Len(events) :
                Distance(change_point_dates[j], events[k].Event_Date) = 7
          /\ \A k \in 1..Len(events) :
                Distance(change_point_dates[j], events[k].Event_Date) >= 7
          /\ ~IsSentinel(change_point_events[j])
    /\ \E j \in 1..Len(change_point_dates) :
          /\ \E k \in 1..Len(events) :
                Distance(change_point_dates[j], events[k].Event_Date) = 8
          /\ \A k \in 1..Len(events) :
                Distance(change_point_dates[j], events[k].Event_Date) >= 8
          /\ IsSentinel(change_point_events[j])

---------------------------------------------------------------------------
---------------------------------------------------------------------------
---------------------------------------------------------------------------
(* C4, as stated: a price file with a missing column, an unparseable date   *)
(* or a non-positive price never gets as far as the log-return computation  *)
(* or the sampler.                                                          *)
MalformedInputFailsFast ==
    Malformed(csv_file) => pc \notin AfterReturns

---------------------------------------------------------------------------
(* C5, as stated: after sorting, the rows are the input rows in ascending   *)
(* date order with rows of equal date in their input order.                 *)
SortIsStable ==
    pc \in AfterSort => df = StableSorted(ParsedRows)

(* C5, amended: after sorting, the rows are the input rows (each as often   *)
(* as in the file) in ascending date order; the dates array is the same for *)
(* every run on the same file, and prices and dates are the columns of the  *)
(* sorted rows.  The order of rows with equal dates is not determined.      *)
SortedAscendingAnyTieOrder ==
    /\ pc \in AfterSort =>
          /\ IsAscending(df)
          /\ SameRows(df, ParsedRows)
    /\ pc \in AfterColumns =>
          /\ dates = [i \in 1..Len(df) |-> StableSorted(ParsedRows)[i].Date]
          /\ \A i \in 1..Len(df) : df[i] = [Date |-> dates[i], Price |-> prices[i]]

\* two rows of equal date whose order after the sort is not their file order
TiedRowsReordered ==
    /\ pc = "columns"
    /\ df # StableSorted(ParsedRows)
    /\ \E i \in 1..(Len(df) - 1) :
          /\ df[i].Date = df[i + 1].Date
          /\ df[i].Price # df[i + 1].Price

---------------------------------------------------------------------------
(* C6: every modal index occurs among the pooled draws of its position at   *)
(* least as often as any other value, and it is fixed by the counts alone:  *)
(* among the values of highest count it is the smallest.                    *)
ModeIsMostFrequent ==
    pc \in AfterExtract =>
        \A i \in Positions :
            LET m == At(tau_modes, i)
            IN  /\ DrawCount(i, m) >= 1
                /\ \A v \in 0..TauUpper(log_returns) : DrawCount(i, v) <= DrawCount(i, m)
                /\ \A v \in 0..(m - 1) : DrawCount(i, v) < DrawCount(i, m)

\* a position where two values tie for the highest count
ModeBreaksTie ==
    /\ pc = "extracted"
    /\ \E i \in Positions :
          \E v \in 0..TauUpper(log_returns) :
              /\ v > At(tau_modes, i)
              /\ DrawCount(i, v) = DrawCount(i, At(tau_modes, i))
    /\ \E i \in Positions :
          \E v \in 0..TauUpper(log_returns) :
              /\ v < At(tau_modes, i)
              /\ DrawCount(i, v) >= 1

---------------------------------------------------------------------------
---------------------------------------------------------------------------
(* C8: for every draw kept in the trace, the nested conditional gives each  *)
(* log-return index t the mean number j = how many sorted break indices are *)
(* <= t, one of 0..3, and the number does not decrease with t.              *)
SwitchCountsBreaksPassed ==
    \A d \in 1..Len(trace) :
        LET mu_t == MuT(prices, trace[d])
        IN  /\ DOMAIN mu_t = 0..(Len(log_returns) - 1)
            /\ \A t \in DOMAIN mu_t :
                  /\ mu_t[t] \in 0..n_change_points
                  /\ mu_t[t] = Cardinality({i \in Positions : At(trace[d], i) <= t})
            /\ \A t1, t2 \in DOMAIN mu_t : t1 <= t2 => mu_t[t1] <= mu_t[t2]

\* a draw with two equal break indices: a segment is empty and its mean is
\* given to no index
EmptySegmentDrawn ==
    /\ pc = "model"
    /\ \E d \in 1..Len(trace) :
          LET mu_t == MuT(prices, trace[d])
          IN  /\ At(trace[d], 0) = At(trace[d], 1)
              /\ At(trace[d], 1) < At(trace[d], 2)
              /\ \E t \in DOMAIN mu_t : mu_t[t] = 0
              /\ \E t \in DOMAIN mu_t : mu_t[t] = 2
              /\ \A t \in DOMAIN mu_t : mu_t[t] # 1

---------------------------------------------------------------------------
(* C9: every modal index lies in 0..n-2 for the n >= 2 rows of the series,  *)
(* so the date read for it is at position 1..n-1 of dates: the read never   *)
(* fails and never is position 0.                                           *)
ModalIndexInRange ==
    /\ error # "IndexError"
    /\ pc \in AfterExtract =>
          /\ Len(prices) >= 2
          /\ \A i \in Positions :
                /\ At(tau_modes, i) \in 0..(Len(prices) - 2)
                /\ DateIndex(At(tau_modes, i)) \in 1..(Len(dates) - 1)
                /\ At(change_point_dates, i) = At(dates, At(tau_modes, i) + 1)

\* the first break at index 0 and the last at n-2, whose date is the last
\* date of the series
LastDateRead ==
    /\ pc = "extracted"
    /\ At(tau_modes, 0) = 0
    /\ At(tau_modes, 2) = Len(prices) - 2
    /\ At(change_point_dates, 2) = dates[Len(dates)]
    /\ Len(prices) > 2

---------------------------------------------------------------------------
(* C10, as stated: the modal indices of positions 0, 1, 2 are in            *)
(* non-decreasing order.                                                    *)
ModesNonDecreasing ==
    pc \in AfterExtract => NonDecreasing(tau_modes)

(* C10, amended: every draw in the trace is sorted ascending, and when at   *)
(* every position the modal index is held by more than half of the pooled   *)
(* draws, the modal indices are in non-decreasing order and so are the      *)
(* change-point dates.  Without such a majority they need not be.           *)
MajorityModesNonDecreasing ==
    /\ \A d \in 1..Len(trace) : NonDecreasing(trace[d])
    /\ pc \in AfterExtract =>
          ((\A i \in Positions : 2 * DrawCount(i, At(tau_modes, i)) > Len(trace))
              => NonDecreasing(tau_modes) /\ NonDecreasing(change_point_dates))

\* several different draws, a majority mode at every position, and modes
\* that differ between positions
MajorityModesReached ==
    /\ pc = "extracted"
    /\ \E d1, d2 \in 1..Len(trace) : trace[d1] # trace[d2]
    /\ \A i \in Positions : 2 * DrawCount(i, At(tau_modes, i)) > Len(trace)
    /\ At(tau_modes, 0) < At(tau_modes, 1)
    /\ At(tau_modes, 1) < At(tau_modes, 2)

=============================================================================
